---- MODULE Spec2Model ----
(***************************************************************************)
(* pqa-web: a question-answering backend over a directory of PDF files.    *)
(*                                                                         *)
(* Two applications are modelled, as the repository holds both:           *)
(*   api      src/api/app.py      LangGraph routing agent + paperqa tool   *)
(*                                with a process-wide Docs cache + logger  *)
(*   backend  src/backend/app.py  direct paperqa handler, no cache         *)
(*                                                                         *)
(* A text is a sequence of one-character strings.                          *)
(***************************************************************************)
EXTENDS FiniteSets, Integers, Sequences, TLC

VARIABLES
    cin,        \* sanitizer run: the input text
    cout1,      \* sanitizer run: clean_answer_text(cin), or Pending
    cout2,      \* sanitizer run: clean_answer_text(cout1), or Pending
    cstage      \* sanitizer run: number of passes applied (0..2)

cvars == <<cin, cout1, cout2, cstage>>

\* Values that stand for "no value", one per type.
NoText == <<-1>>            \* None where a text is expected
Pending == <<-2>>           \* a text not computed yet
NoDocs == 0                 \* None where a Docs object is expected

(***************************************************************************)
(* Text literals of the source.  A text is the sequence of the code points *)
(* of its characters.                                                      *)
(***************************************************************************)
NL == 10    \* "\n"
VT == 11    \* the vertical tab
Empty == <<>>
\* "Question:", "References", "none", "i cannot answer."
T_Question == <<81, 117, 101, 115, 116, 105, 111, 110, 58>>
T_References == <<82, 101, 102, 101, 114, 101, 110, 99, 101, 115>>
T_NLNLReferences == <<NL, NL>> \o T_References
T_none == <<110, 111, 110, 101>>
T_cannot ==
    <<105, 32, 99, 97, 110, 110, 111, 116, 32, 97, 110, 115, 119, 101, 114, 46>>

\* Characters Python's \s (str pattern) and str.strip() treat as whitespace:
\* the characters c with c.isspace().
Whitespace ==
    {9, 10, 11, 12, 13, 28, 29, 30, 31, 32, 133, 160, 5760}
        \cup (8192..8202) \cup {8232, 8233, 8239, 8287, 12288}

(***************************************************************************)
(* clean_answer_text, regex by regex.                                      *)
(***************************************************************************)
StartsWithAt(s, i, p) ==
    /\ i + Len(p) - 1 <= Len(s)
    /\ \A k \in 1..Len(p) : s[i + k - 1] = p[k]

\* '^' under re.MULTILINE: start of text or just after a newline.
AtLineStart(s, i) == i = 1 \/ s[i - 1] = NL

\* Positions j >= i holding a newline.
NewlinesFrom(s, i) == {j \in i..Len(s) : s[j] = NL}

Min(S) == CHOOSE m \in S : \A n \in S : m <= n
Max(S) == CHOOSE m \in S : \A n \in S : m >= n

\* re.sub(r'^Question:.*\n', '', text, flags=re.MULTILINE), scanning from i.
RECURSIVE SubQuestionFrom(_, _)
SubQuestionFrom(s, i) ==
    IF i > Len(s) THEN <<>>
    ELSE IF /\ AtLineStart(s, i)
            /\ StartsWithAt(s, i, T_Question)
            /\ NewlinesFrom(s, i + Len(T_Question)) # {}
         THEN SubQuestionFrom(s, Min(NewlinesFrom(s, i + Len(T_Question))) + 1)
         ELSE <<s[i]>> \o SubQuestionFrom(s, i + 1)

SubQuestion(s) == SubQuestionFrom(s, 1)

\* re.sub(r'\n\nReferences.*$', '', text, flags=re.DOTALL): cut at the first
\* "\n\nReferences".
SubReferences(s) ==
    LET hits == {i \in 1..Len(s) : StartsWithAt(s, i, T_NLNLReferences)}
    IN  IF hits = {} THEN s ELSE SubSeq(s, 1, Min(hits) - 1)

\* Ends k > i of a match of \n\s*\n starting at i: s[k] is a newline and only
\* whitespace lies between.
BlankRunEnds(s, i) ==
    {k \in (i + 1)..Len(s) :
        /\ s[k] = NL
        /\ \A m \in (i + 1)..(k - 1) : s[m] \in Whitespace}

\* re.sub(r'\n\s*\n', '\n\n', text), scanning from i (\s* is greedy).
RECURSIVE SubBlankLinesFrom(_, _)
SubBlankLinesFrom(s, i) ==
    IF i > Len(s) THEN <<>>
    ELSE IF s[i] = NL /\ BlankRunEnds(s, i) # {}
         THEN <<NL, NL>> \o SubBlankLinesFrom(s, Max(BlankRunEnds(s, i)) + 1)
         ELSE <<s[i]>> \o SubBlankLinesFrom(s, i + 1)

SubBlankLines(s) == SubBlankLinesFrom(s, 1)

\* str.strip()
Strip(s) ==
    LET keep == {i \in 1..Len(s) : s[i] \notin Whitespace}
    IN  IF keep = {} THEN <<>> ELSE SubSeq(s, Min(keep), Max(keep))

clean_answer_text(text) ==
    IF text = NoText \/ text = Empty THEN Empty
    ELSE Strip(SubBlankLines(SubReferences(SubQuestion(text))))

\* The characters str.lower() turns into the ASCII character d: d itself
\* unless it is a capital, its capital, and for "k" the Kelvin sign U+212A.
\* No character has a lower case of several characters that are all ASCII.
LowersTo(d) ==
    (IF d \in 65..90 THEN {} ELSE {d})
        \cup (IF d \in 97..122 THEN {d - 32} ELSE {})
        \cup (IF d = 107 THEN {8490} ELSE {})

\* s.lower() == token, for a token of ASCII characters.
LowerEquals(s, token) ==
    /\ Len(s) = Len(token)
    /\ \A i \in 1..Len(s) : s[i] \in LowersTo(token[i])

(***************************************************************************)
(* Fixed sentences of the handlers.                                        *)
(***************************************************************************)
\* "Error: Could not find the 'my_papers' directory."
E_DIR ==
    <<69, 114, 114, 111, 114, 58, 32, 67, 111, 117, 108, 100, 32, 110,
      111, 116, 32, 102, 105, 110, 100, 32, 116, 104, 101, 32, 39, 109,
      121, 95, 112, 97, 112, 101, 114, 115, 39, 32, 100, 105, 114, 101,
      99, 116, 111, 114, 121, 46>>

\* "Error: Could not find any PDF files in the 'my_papers' directory."
E_PDF ==
    <<69, 114, 114, 111, 114, 58, 32, 67, 111, 117, 108, 100, 32, 110,
      111, 116, 32, 102, 105, 110, 100, 32, 97, 110, 121, 32, 80, 68, 70,
      32, 102, 105, 108, 101, 115, 32, 105, 110, 32, 116, 104, 101, 32,
      39, 109, 121, 95, 112, 97, 112, 101, 114, 115, 39, 32, 100, 105,
      114, 101, 99, 116, 111, 114, 121, 46>>

\* "I could not find a relevant answer in the documents for your query."
TOOL_FALLBACK ==
    <<73, 32, 99, 111, 117, 108, 100, 32, 110, 111, 116, 32, 102, 105,
      110, 100, 32, 97, 32, 114, 101, 108, 101, 118, 97, 110, 116, 32,
      97, 110, 115, 119, 101, 114, 32, 105, 110, 32, 116, 104, 101, 32,
      100, 111, 99, 117, 109, 101, 110, 116, 115, 32, 102, 111, 114, 32,
      121, 111, 117, 114, 32, 113, 117, 101, 114, 121, 46>>

\* "An error occurred while searching the documents."
E_TOOL ==
    <<65, 110, 32, 101, 114, 114, 111, 114, 32, 111, 99, 99, 117, 114,
      114, 101, 100, 32, 119, 104, 105, 108, 101, 32, 115, 101, 97, 114,
      99, 104, 105, 110, 103, 32, 116, 104, 101, 32, 100, 111, 99, 117,
      109, 101, 110, 116, 115, 46>>

\* "I could not find the my_papers directory. Please create backend/my_papers and add your documents."
B_DIR ==
    <<73, 32, 99, 111, 117, 108, 100, 32, 110, 111, 116, 32, 102, 105,
      110, 100, 32, 116, 104, 101, 32, 109, 121, 95, 112, 97, 112, 101,
      114, 115, 32, 100, 105, 114, 101, 99, 116, 111, 114, 121, 46, 32,
      80, 108, 101, 97, 115, 101, 32, 99, 114, 101, 97, 116, 101, 32, 98,
      97, 99, 107, 101, 110, 100, 47, 109, 121, 95, 112, 97, 112, 101,
      114, 115, 32, 97, 110, 100, 32, 97, 100, 100, 32, 121, 111, 117,
      114, 32, 100, 111, 99, 117, 109, 101, 110, 116, 115, 46>>

\* "I could not find any PDF files in the my_papers directory. Please add your documents to backend/my_papers."
B_PDF ==
    <<73, 32, 99, 111, 117, 108, 100, 32, 110, 111, 116, 32, 102, 105,
      110, 100, 32, 97, 110, 121, 32, 80, 68, 70, 32, 102, 105, 108, 101,
      115, 32, 105, 110, 32, 116, 104, 101, 32, 109, 121, 95, 112, 97,
      112, 101, 114, 115, 32, 100, 105, 114, 101, 99, 116, 111, 114, 121,
      46, 32, 80, 108, 101, 97, 115, 101, 32, 97, 100, 100, 32, 121, 111,
      117, 114, 32, 100, 111, 99, 117, 109, 101, 110, 116, 115, 32, 116,
      111, 32, 98, 97, 99, 107, 101, 110, 100, 47, 109, 121, 95, 112, 97,
      112, 101, 114, 115, 46>>

\* "I could not find an answer in the provided documents."
B_FALLBACK ==
    <<73, 32, 99, 111, 117, 108, 100, 32, 110, 111, 116, 32, 102, 105,
      110, 100, 32, 97, 110, 32, 97, 110, 115, 119, 101, 114, 32, 105,
      110, 32, 116, 104, 101, 32, 112, 114, 111, 118, 105, 100, 101, 100,
      32, 100, 111, 99, 117, 109, 101, 110, 116, 115, 46>>

(***************************************************************************)
(* Bounds of the model.                                                    *)
(***************************************************************************)
MaxRequests == 2    \* requests received over a run
MaxHops == 2        \* tool-calling replies the model gives over a run
MaxDay == 2         \* calendar days the run spans

Tasks == {1, 2}                 \* request tasks on the event loop
HandleIds == 1..(Cardinality(Tasks) + 1)    \* live Docs objects

\* Directory entries: two PDFs and one file that is not a PDF.
File(stem, ext) == [stem |-> stem, ext |-> ext]
FileNames == {File("a", "pdf"), File("b", "pdf"), File("n", "txt")}

\* What os.path.exists and os.listdir find at the papers path when a handler
\* looks: nothing, a directory with its files, or something os.listdir cannot
\* list (a regular file).  The path is outside the program and changes freely
\* between two looks.
DirStates ==
    [exists : {TRUE}, is_dir : {TRUE}, files : SUBSET FileNames]
        \cup {[exists |-> FALSE, is_dir |-> FALSE, files |-> {}],
              [exists |-> TRUE, is_dir |-> FALSE, files |-> {}]}

\* The exception os.listdir raises on a path that is no directory.
NotADirectoryError == "NotADirectoryError"


Questions == {Empty, <<113>>}    \* "" and "q"
\* Requests carry no session_id (None or "").
NoSession == <<>>
SessionIds == {NoSession}
Excs == {"TypeError", "RuntimeError"}

\* prompts.agent_system_prompt (the prompts module is outside the sources).
SystemPrompt == <<112>>

\* Replies of the chat model: content and number of tool calls requested.
ModelReplies ==
    {[content |-> Empty, tool_calls |-> 1],
     [content |-> Empty, tool_calls |-> 0],
     [content |-> <<72, 105>>, tool_calls |-> 0]}    \* "Hi"

\* The attribute is missing from the object.
Absent == <<-3>>

\* Results of Docs.aquery: the attributes the handlers look for, and str().
\* The answers: "Question:a\nB\n\nReferences", "NOnE", " \x0b" (with the
\* formatted answer "I cannot answer."), and none; str() gives "B".
RagResponses ==
    {[answer |-> T_Question \o <<97, NL, 66, NL, NL>> \o T_References,
      formatted_answer |-> Absent, str |-> <<66>>],
     [answer |-> <<78, 79, 110, 69>>,
      formatted_answer |-> Absent, str |-> <<66>>],
     [answer |-> <<32, VT>>,
      formatted_answer |-> <<73, 32, 99, 97, 110, 110, 111, 116, 32,
                             97, 110, 115, 119, 101, 114, 46>>,
      str |-> <<66>>],
     [answer |-> Absent, formatted_answer |-> Absent, str |-> <<66>>]}

VARIABLES
    app,            \* which application serves: "api" or "backend"
    api_key,        \* app_settings.gemini_api_key is set
    today,          \* the calendar day now
    start_day,      \* the day the api module was imported (`now`)
    logs,           \* log files: partition day -> lines written
    docs_instance,  \* api: the cached Docs object (NoDocs or a handle id)
    heap,           \* Docs objects: id -> [live, docs, has_indexed, indexed]
    served,         \* requests received so far
    hops,           \* tool-calling replies given so far
    pc,             \* per task: position in the handler
    req,            \* per task: the request
    msgs,           \* per task: AgentState.messages
    loc,            \* per task: locals of paperqa_query / the backend handler
    resp            \* per task: the response sent last

mvars == <<app, api_key, today, start_day, logs, docs_instance, heap,
           served, hops, pc, req, msgs, loc, resp>>
vars == <<mvars, cvars>>

NoFile == File("", "")
NoLoc == [current_files |-> {}, pending |-> {}, temp_docs |-> NoDocs,
          qdocs |-> NoDocs, retry |-> NoFile]
NoReq == [question |-> Empty, session_id |-> NoSession]

(***************************************************************************)
(* Docs objects.                                                           *)
(***************************************************************************)
\* Docs(): a new, empty object at a free id.
Free == [live |-> FALSE, docs |-> {}, has_indexed |-> FALSE, indexed |-> {}]
EmptyDocs == [live |-> TRUE, docs |-> {}, has_indexed |-> FALSE, indexed |-> {}]

NewDocs(h) == Min({i \in HandleIds : ~h[i].live})

\* Objects no name refers to any more are reclaimed.
Collect(h, cached, l) ==
    [i \in HandleIds |->
        IF i = cached \/ \E t \in Tasks : i \in {l[t].temp_docs, l[t].qdocs}
        THEN h[i] ELSE Free]

\* The filter without the extension test.
PdfFiles_AnyFile(d) == d.files

\* [f for f in os.listdir(papers_dir) if f.endswith('.pdf')]
PdfFiles(d) == {f \in d.files : f.ext = "pdf"}

\* getattr(docs_instance, '_indexed_files', set())
IndexedFiles(h) == IF h.has_indexed THEN h.indexed ELSE {}

\* The comparison by count in place of set equality.
NeedsRebuild_ByCount(current_files) ==
    \/ docs_instance = NoDocs
    \/ Cardinality(IndexedFiles(heap[docs_instance])) # Cardinality(current_files)

\* docs_instance is None or its _indexed_files != current_files
NeedsRebuild(current_files) ==
    \/ docs_instance = NoDocs
    \/ IndexedFiles(heap[docs_instance]) # current_files

(***************************************************************************)
(* Messages and the routing graph.                                         *)
(***************************************************************************)
SystemMessage(c) == [type |-> "system", content |-> c, tool_calls |-> 0]
HumanMessage(c) == [type |-> "human", content |-> c, tool_calls |-> 0]
AIMessage(r) == [type |-> "ai", content |-> r.content, tool_calls |-> r.tool_calls]
ToolMessage(c) == [type |-> "tool", content |-> c, tool_calls |-> 0]

Last(s) == s[Len(s)]

\* The router that never asks for the tool.
should_continue_Never(messages) == "__end__"

should_continue(messages) ==
    IF Last(messages).tool_calls > 0 THEN "call_tool" ELSE "__end__"

\* The graph node a task is at ("none" outside the graph).
Node(p) ==
    CASE p = "agent" -> "agent"
      [] p \in {"call_tool", "adding", "querying"} -> "call_tool"
      [] p = "__end__" -> "__end__"
      [] OTHER -> "none"

(***************************************************************************)
(* Responses.                                                              *)
(***************************************************************************)
NoCause == "none"
NoBody == [answer |-> NoText]
NoResp == [status |-> 0, detail |-> "", cause |-> NoCause, body |-> NoBody]

\* `cause` is the exception text the detail carries, if any.
HTTPException(status, detail, cause) ==
    [status |-> status, detail |-> detail, cause |-> cause, body |-> NoBody]

JSONResponse(body) ==
    [status |-> 200, detail |-> "", cause |-> NoCause, body |-> body]

\* The tool's fallback for an empty or no-answer result.
IsNoAnswerApi(cleaned) ==
    \/ cleaned = Empty
    \/ \E token \in {T_none, Empty, T_cannot} : LowerEquals(cleaned, token)

\* The backend's fallback.
IsNoAnswerBackend(cleaned) ==
    \/ cleaned = Empty
    \/ \E token \in {T_none, Empty} : LowerEquals(cleaned, token)

\* api: getattr(answer_response, 'answer', str(answer_response))
FinalAnswerTextApi(r) == IF r.answer # Absent THEN r.answer ELSE r.str

\* backend: answer if it strips non-empty, else formatted_answer, else str().
FinalAnswerTextBackend(r) ==
    IF r.answer # Absent /\ Strip(r.answer) # Empty THEN r.answer
    ELSE IF r.formatted_answer # Absent THEN r.formatted_answer
    ELSE r.str

\* The tag taken from the last message alone.
Source_LastOnly(messages) ==
    IF Last(messages).type = "tool" THEN "rag_api" ELSE "conversational_api"

\* The source tag: "rag_api" when a ToolMessage is among the messages.
Source(messages) ==
    IF \E i \in 1..Len(messages) : messages[i].type = "tool"
    THEN "rag_api" ELSE "conversational_api"

\* The log file the handler writes to: fixed when the module is imported.
LogFile == start_day

\* rag_logger.info(json.dumps(response_data)): of the line written, its
\* timestamp is kept.
LogLine(response_data) == [timestamp |-> response_data.timestamp]

(***************************************************************************)
(* Initial state: the module has just been imported.                       *)
(***************************************************************************)
MainInit ==
    /\ app \in {"api", "backend"}
    /\ api_key \in BOOLEAN
    /\ today = 1
    /\ start_day = 1
    /\ logs = [d \in {1} |-> <<>>]
    /\ docs_instance = NoDocs
    /\ heap = [i \in HandleIds |-> Free]
    /\ served = 0
    /\ hops = 0
    /\ pc = [t \in Tasks |-> "idle"]
    /\ req = [t \in Tasks |-> NoReq]
    /\ msgs = [t \in Tasks |-> <<>>]
    /\ loc = [t \in Tasks |-> NoLoc]
    /\ resp = [t \in Tasks |-> NoResp]

CleanIdle ==
    /\ cin = Empty
    /\ cout1 = Pending
    /\ cout2 = Pending
    /\ cstage = 0

Init == MainInit /\ CleanIdle

\* What no action changes, and what only the model's replies change.
config == <<app, api_key, start_day, cvars>>
fixed == <<config, hops>>

(***************************************************************************)
(* The environment: the calendar.                                          *)
(***************************************************************************)
\* Midnight passes (only the api reads the clock).
NextDay ==
    /\ app = "api"
    /\ today < MaxDay
    /\ today' = today + 1
    /\ UNCHANGED <<fixed, logs, docs_instance, heap, served, pc, req,
                   msgs, loc, resp>>

(***************************************************************************)
(* A POST /api/chat request reaches a free task (the first free one; the   *)
(* backend's ChatRequest has no session_id).                               *)
(***************************************************************************)
IsFree(p) == p \in {"idle", "done"}

Receive(t, question, session_id) ==
    /\ IsFree(pc[t])
    /\ \A u \in Tasks : IsFree(pc[u]) => t <= u
    /\ served < MaxRequests
    /\ app = "backend" => session_id = NoSession
    /\ served' = served + 1
    /\ req' = [req EXCEPT ![t] = [question |-> question,
                                  session_id |-> session_id]]
    /\ pc' = [pc EXCEPT ![t] = "received"]
    /\ resp' = [resp EXCEPT ![t] = NoResp]
    /\ UNCHANGED <<fixed, today, logs, docs_instance, heap, msgs, loc>>

\* The handler returns or raises: the response goes out, its locals go away.
Respond(t, r) ==
    /\ pc' = [pc EXCEPT ![t] = "done"]
    /\ resp' = [resp EXCEPT ![t] = r]
    /\ req' = [req EXCEPT ![t] = NoReq]
    /\ msgs' = [msgs EXCEPT ![t] = <<>>]

\* The two checks in the other order.
Rejection_QuestionFirst(question) ==
    IF question = Empty
    THEN HTTPException(400, "Question cannot be empty.", NoCause)
    ELSE IF ~api_key
    THEN HTTPException(500, "API key is not configured on the server.", NoCause)
    ELSE NoResp

(***************************************************************************)
(* The two checks both handlers open with: the error raised, or NoResp.    *)
(***************************************************************************)
Rejection(question) ==
    IF ~api_key
    THEN HTTPException(500, "API key is not configured on the server.", NoCause)
    ELSE IF question = Empty
    THEN HTTPException(400, "Question cannot be empty.", NoCause)
    ELSE NoResp

(***************************************************************************)
(* api: chat_with_papers up to the first await (lines 198-215).            *)
(***************************************************************************)
chat_with_papers(t) ==
    /\ app = "api"
    /\ pc[t] = "received"
    /\ IF Rejection(req[t].question) # NoResp
       THEN Respond(t, Rejection(req[t].question))
       ELSE /\ msgs' = [msgs EXCEPT ![t] =
                          <<SystemMessage(SystemPrompt),
                            HumanMessage(req[t].question)>>]
            /\ pc' = [pc EXCEPT ![t] = "agent"]
            /\ UNCHANGED <<req, resp>>
    /\ UNCHANGED <<fixed, today, logs, docs_instance, heap, served, loc>>

(***************************************************************************)
(* api: the agent node. The model replies or its invocation fails; a       *)
(* failure leaves the graph and is caught by the handler (lines 241-245).  *)
(***************************************************************************)
call_model_reply(t, reply) ==
    /\ app = "api"
    /\ pc[t] = "agent"
    /\ reply.tool_calls > 0 => hops < MaxHops
    /\ hops' = IF reply.tool_calls > 0 THEN hops + 1 ELSE hops
    /\ LET messages == Append(msgs[t], AIMessage(reply))
       IN  /\ msgs' = [msgs EXCEPT ![t] = messages]
           /\ pc' = [pc EXCEPT ![t] = should_continue(messages)]
    /\ UNCHANGED <<config, today, logs, docs_instance, heap, served, req,
                   loc, resp>>

call_model_raise(t, e) ==
    /\ app = "api"
    /\ pc[t] = "agent"
    /\ Respond(t, HTTPException(500, "An internal error occurred.", NoCause))
    /\ UNCHANGED <<fixed, today, logs, docs_instance, heap, served, loc>>

(***************************************************************************)
(* api: the call_tool node runs paperqa_query. Each action runs from one   *)
(* await to the next.                                                      *)
(***************************************************************************)
\* The tool returns `content`: ToolNode appends it, the graph goes to agent.
ToolReturn(t, content) ==
    /\ msgs' = [msgs EXCEPT ![t] = Append(@, ToolMessage(content))]
    /\ pc' = [pc EXCEPT ![t] = "agent"]
    /\ loc' = [loc EXCEPT ![t] = NoLoc]
    /\ heap' = Collect(heap, docs_instance, [loc EXCEPT ![t] = NoLoc])
    /\ UNCHANGED docs_instance

\* Lines 78-106, or 78-119 when the cached object is current.
paperqa_query_start(t, dir) ==
    /\ app = "api"
    /\ pc[t] = "call_tool"
    /\ IF ~dir.exists
       THEN ToolReturn(t, E_DIR)
       ELSE IF ~dir.is_dir
       THEN ToolReturn(t, E_TOOL)
       ELSE IF PdfFiles(dir) = {}
       THEN ToolReturn(t, E_PDF)
       ELSE LET current_files == PdfFiles(dir)
                temp_docs == NewDocs(heap)
            IN  IF NeedsRebuild(current_files)
                THEN /\ heap' = [heap EXCEPT ![temp_docs] = EmptyDocs]
                     /\ loc' = [loc EXCEPT ![t] =
                                  [NoLoc EXCEPT !.current_files = current_files,
                                                !.pending = current_files,
                                                !.temp_docs = temp_docs]]
                     /\ pc' = [pc EXCEPT ![t] = "adding"]
                     /\ UNCHANGED <<docs_instance, msgs>>
                ELSE /\ loc' = [loc EXCEPT ![t] =
                                  [NoLoc EXCEPT !.current_files = current_files,
                                                !.qdocs = docs_instance]]
                     /\ pc' = [pc EXCEPT ![t] = "querying"]
                     /\ UNCHANGED <<docs_instance, heap, msgs>>
    /\ UNCHANGED <<fixed, today, logs, served, req, resp>>

\* The object built is cached and queried, its stamp forgotten.
CacheAndQuery_Unstamped(t, built) ==
    LET temp_docs == loc[t].temp_docs
        l == [loc EXCEPT ![t].pending = {},
                         ![t].temp_docs = NoDocs,
                         ![t].qdocs = temp_docs]
    IN  /\ docs_instance' = temp_docs
        /\ heap' = Collect(built, temp_docs, l)
        /\ loc' = l
        /\ pc' = [pc EXCEPT ![t] = "querying"]

\* Lines 109-119: the object built is cached, stamped and queried.
CacheAndQuery(t, built) ==
    LET temp_docs == loc[t].temp_docs
        l == [loc EXCEPT ![t].pending = {},
                         ![t].temp_docs = NoDocs,
                         ![t].qdocs = temp_docs]
    IN  /\ docs_instance' = temp_docs
        /\ heap' = Collect([built EXCEPT ![temp_docs].indexed = loc[t].current_files,
                                         ![temp_docs].has_indexed = TRUE],
                           temp_docs, l)
        /\ loc' = l
        /\ pc' = [pc EXCEPT ![t] = "querying"]

\* An aadd returns: the next one is issued, or the loop is over.
paperqa_query_added(t, pdf_file) ==
    /\ app = "api"
    /\ pc[t] = "adding"
    /\ pdf_file \in loc[t].pending
    /\ LET pending == loc[t].pending \ {pdf_file}
           added == [heap EXCEPT ![loc[t].temp_docs].docs = @ \cup {pdf_file}]
       IN  IF pending # {}
           THEN /\ heap' = added
                /\ loc' = [loc EXCEPT ![t].pending = pending]
                /\ UNCHANGED <<docs_instance, pc>>
           ELSE CacheAndQuery(t, added)
    /\ UNCHANGED <<fixed, today, logs, served, req, msgs, resp>>

\* An aadd raises: lines 129-133.
paperqa_query_add_raise(t, e) ==
    /\ app = "api"
    /\ pc[t] = "adding"
    /\ ToolReturn(t, E_TOOL)
    /\ UNCHANGED <<fixed, today, logs, served, req, resp>>

\* The aquery returns: lines 121-127.
paperqa_query_answered(t, answer_response) ==
    /\ app = "api"
    /\ pc[t] = "querying"
    /\ LET final_answer_text == FinalAnswerTextApi(answer_response)
           cleaned_answer == clean_answer_text(final_answer_text)
       IN  ToolReturn(t, IF IsNoAnswerApi(cleaned_answer)
                         THEN TOOL_FALLBACK ELSE cleaned_answer)
    /\ UNCHANGED <<fixed, today, logs, served, req, resp>>

\* The aquery raises: lines 129-133.
paperqa_query_query_raise(t, e) ==
    /\ app = "api"
    /\ pc[t] = "querying"
    /\ ToolReturn(t, E_TOOL)
    /\ UNCHANGED <<fixed, today, logs, served, req, resp>>

(***************************************************************************)
(* api: the graph has ended; lines 218-239.                                *)
(***************************************************************************)
\* str(uuid.uuid4()); generated values are not told apart.
Uuid4 == <<"uuid4">>

ResponseData(t) ==
    [session_id |-> IF req[t].session_id # NoSession
                    THEN req[t].session_id ELSE Uuid4,
     timestamp |-> today,
     question |-> req[t].question,
     answer |-> Last(msgs[t]).content,
     source |-> Source(msgs[t])]

chat_with_papers_finish(t) ==
    /\ app = "api"
    /\ pc[t] = "__end__"
    /\ logs' = [logs EXCEPT ![LogFile] = Append(@, LogLine(ResponseData(t)))]
    /\ Respond(t, JSONResponse(ResponseData(t)))
    /\ UNCHANGED <<fixed, today, docs_instance, heap, served, loc>>

(***************************************************************************)
(* backend: POST /api/chat. Every request builds its own Docs object; an   *)
(* aadd or aquery that raises TypeError is tried again without settings.   *)
(***************************************************************************)
\* The outer except (lines 125-129): the 500 carries the exception's text.
BackendError(t, e) ==
    /\ Respond(t, HTTPException(500,
                     "An error occurred while processing your question: ", e))
    /\ loc' = [loc EXCEPT ![t] = NoLoc]
    /\ heap' = Collect(heap, NoDocs, [loc EXCEPT ![t] = NoLoc])

\* Lines 46-93: up to the first aadd.
backend_chat_with_papers(t, dir) ==
    /\ app = "backend"
    /\ pc[t] = "received"
    /\ IF Rejection(req[t].question) # NoResp
       THEN /\ Respond(t, Rejection(req[t].question))
            /\ UNCHANGED <<heap, loc>>
       ELSE IF ~dir.exists
       THEN /\ Respond(t, JSONResponse([answer |-> B_DIR]))
            /\ UNCHANGED <<heap, loc>>
       ELSE IF ~dir.is_dir
       THEN BackendError(t, NotADirectoryError)
       ELSE IF PdfFiles(dir) = {}
       THEN /\ Respond(t, JSONResponse([answer |-> B_PDF]))
            /\ UNCHANGED <<heap, loc>>
       ELSE LET docs == NewDocs(heap)
            IN  /\ heap' = [heap EXCEPT ![docs] = EmptyDocs]
                /\ loc' = [loc EXCEPT ![t] =
                              [NoLoc EXCEPT !.current_files = PdfFiles(dir),
                                            !.pending = PdfFiles(dir),
                                            !.temp_docs = docs]]
                /\ pc' = [pc EXCEPT ![t] = "adding"]
                /\ UNCHANGED <<req, resp, msgs>>
    /\ UNCHANGED <<fixed, today, logs, docs_instance, served>>

\* An aadd (with or without settings) returns: the next file, or the query.
backend_added(t, pdf_file) ==
    /\ app = "backend"
    /\ pc[t] \in {"adding", "add_retry"}
    /\ pdf_file \in loc[t].pending
    /\ pc[t] = "add_retry" => pdf_file = loc[t].retry
    /\ LET docs == loc[t].temp_docs
           pending == loc[t].pending \ {pdf_file}
       IN  /\ heap' = [heap EXCEPT ![docs].docs = @ \cup {pdf_file}]
           /\ IF pending # {}
              THEN /\ loc' = [loc EXCEPT ![t].pending = pending,
                                         ![t].retry = NoFile]
                   /\ pc' = [pc EXCEPT ![t] = "adding"]
              ELSE /\ loc' = [loc EXCEPT ![t].pending = {},
                                         ![t].retry = NoFile,
                                         ![t].temp_docs = NoDocs,
                                         ![t].qdocs = docs]
                   /\ pc' = [pc EXCEPT ![t] = "querying"]
    /\ UNCHANGED <<fixed, today, logs, docs_instance, served, req, msgs,
                   resp>>

\* aadd(pdf_path, settings=...) raises TypeError: aadd(pdf_path) is issued.
backend_add_typeerror(t, pdf_file) ==
    /\ app = "backend"
    /\ pc[t] = "adding"
    /\ pdf_file \in loc[t].pending
    /\ loc' = [loc EXCEPT ![t].retry = pdf_file]
    /\ pc' = [pc EXCEPT ![t] = "add_retry"]
    /\ UNCHANGED <<fixed, today, logs, docs_instance, heap, served, req,
                   msgs, resp>>

\* An aadd raises something the inner except does not catch.
backend_add_raise(t, e) ==
    /\ app = "backend"
    /\ pc[t] \in {"adding", "add_retry"}
    /\ pc[t] = "adding" => e # "TypeError"
    /\ BackendError(t, e)
    /\ UNCHANGED <<fixed, today, logs, docs_instance, served>>

\* The answer of lines 110-121.
BackendAnswer(answer_response) ==
    LET final_answer_text == FinalAnswerTextBackend(answer_response)
        cleaned_answer == clean_answer_text(final_answer_text)
    IN  IF IsNoAnswerBackend(cleaned_answer) THEN B_FALLBACK ELSE cleaned_answer

\* An aquery returns: lines 108-123.
backend_answered(t, answer_response) ==
    /\ app = "backend"
    /\ pc[t] \in {"querying", "query_retry"}
    /\ Respond(t, JSONResponse([answer |-> BackendAnswer(answer_response)]))
    /\ loc' = [loc EXCEPT ![t] = NoLoc]
    /\ heap' = Collect(heap, NoDocs, [loc EXCEPT ![t] = NoLoc])
    /\ UNCHANGED <<fixed, today, logs, docs_instance, served>>

\* aquery(question, settings=...) raises TypeError: aquery(question) is issued.
backend_query_typeerror(t) ==
    /\ app = "backend"
    /\ pc[t] = "querying"
    /\ pc' = [pc EXCEPT ![t] = "query_retry"]
    /\ UNCHANGED <<fixed, today, logs, docs_instance, heap, served, req,
                   msgs, loc, resp>>

\* An aquery raises something the inner except does not catch.
backend_query_raise(t, e) ==
    /\ app = "backend"
    /\ pc[t] \in {"querying", "query_retry"}
    /\ pc[t] = "querying" => e # "TypeError"
    /\ BackendError(t, e)
    /\ UNCHANGED <<fixed, today, logs, docs_instance, served>>

(***************************************************************************)
(* The system.                                                             *)
(***************************************************************************)
Next ==
    \/ NextDay
    \/ \E t \in Tasks, q \in Questions, s \in SessionIds : Receive(t, q, s)
    \/ \E t \in Tasks : chat_with_papers(t)
    \/ \E t \in Tasks, r \in ModelReplies : call_model_reply(t, r)
    \/ \E t \in Tasks, e \in Excs : call_model_raise(t, e)
    \/ \E t \in Tasks, d \in DirStates : paperqa_query_start(t, d)
    \/ \E t \in Tasks, f \in FileNames : paperqa_query_added(t, f)
    \/ \E t \in Tasks, e \in Excs : paperqa_query_add_raise(t, e)
    \/ \E t \in Tasks, r \in RagResponses : paperqa_query_answered(t, r)
    \/ \E t \in Tasks, e \in Excs : paperqa_query_query_raise(t, e)
    \/ \E t \in Tasks : chat_with_papers_finish(t)
    \/ \E t \in Tasks, d \in DirStates : backend_chat_with_papers(t, d)
    \/ \E t \in Tasks, f \in FileNames : backend_added(t, f)
    \/ \E t \in Tasks, f \in FileNames : backend_add_typeerror(t, f)
    \/ \E t \in Tasks, e \in Excs : backend_add_raise(t, e)
    \/ \E t \in Tasks, r \in RagResponses : backend_answered(t, r)
    \/ \E t \in Tasks : backend_query_typeerror(t)
    \/ \E t \in Tasks, e \in Excs : backend_query_raise(t, e)

Spec == Init /\ [][Next]_vars

(***************************************************************************)
(* The sanitizer applied twice to one text.                                *)
(***************************************************************************)
MaxPieces == 4

Pieces == {T_Question, T_References, <<NL>>, <<32>>, <<VT>>, <<97>>}

RECURSIVE Concats(_)
Concats(n) ==
    IF n = 0 THEN {<<>>}
    ELSE LET shorter == Concats(n - 1)
         IN  shorter \cup {s \o p : s \in shorter, p \in Pieces}

CleanInit ==
    /\ MainInit
    /\ cin \in Concats(MaxPieces)
    /\ cout1 = Pending
    /\ cout2 = Pending
    /\ cstage = 0

CleanOnce ==
    /\ cstage = 0
    /\ cout1' = clean_answer_text(cin)
    /\ cstage' = 1
    /\ UNCHANGED <<cin, cout2, mvars>>

CleanTwice ==
    /\ cstage = 1
    /\ cout2' = clean_answer_text(cout1)
    /\ cstage' = 2
    /\ UNCHANGED <<cin, cout1, mvars>>

CleanNext == CleanOnce \/ CleanTwice

SpecClean == CleanInit /\ [][CleanNext]_vars

(***************************************************************************)
(* Properties.                                                             *)
(***************************************************************************)
\* The Document Set: the PDF filenames present in the directory.
DocumentSet(d) ==
    IF d.exists /\ d.is_dir THEN {f \in d.files : f.ext = "pdf"} ELSE {}

\* The papers path does not exist, or is a directory that holds no PDF.
NoDirOrNoPdf(d) == ~d.exists \/ (d.is_dir /\ DocumentSet(d) = {})

\* The cached handle, when there is one, and the files added to it.
HasCache == docs_instance # NoDocs
CachedSet == heap[docs_instance].docs

\* Task t starts adding files to a new Docs object in this step.
Rebuilds(t) == pc[t] = "call_tool" /\ pc'[t] = "adding"

IsPrefix(s, r) == Len(s) <= Len(r) /\ SubSeq(r, 1, Len(s)) = s

C1_ByDocumentSet(t, d) ==
    paperqa_query_start(t, d) =>
        /\ HasCache => (Rebuilds(t) <=> CachedSet # DocumentSet(d))
        /\ ~HasCache /\ DocumentSet(d) # {} => Rebuilds(t)

\* C1 as stated: a paperqa_query call rebuilds the index if and only if the
\* current Document Set differs from the set the cached handle was built from.
C1_RebuildIffSetDiffers ==
    [][\A t \in Tasks, d \in DirStates : C1_ByDocumentSet(t, d)]_vars

C1_WhenPdfsFound(t, d) ==
    paperqa_query_start(t, d) =>
        /\ DocumentSet(d) # {} =>
              /\ Rebuilds(t) <=> (~HasCache \/ CachedSet # DocumentSet(d))
              /\ ~Rebuilds(t) => /\ pc'[t] = "querying"
                                 /\ loc'[t].qdocs = docs_instance
        /\ DocumentSet(d) = {} => ~Rebuilds(t) /\ pc'[t] = "agent"
        /\ UNCHANGED docs_instance
        /\ HasCache => heap'[docs_instance] = heap[docs_instance]

\* C1 amended: a paperqa_query call that finds at least one PDF rebuilds the
\* index if and only if no handle is cached or the cached handle was built
\* from another set (set equality), and otherwise queries the cached handle;
\* a call that finds no path, no directory at the path or no PDF in it never
\* rebuilds; no call changes the cached handle before its rebuild is complete.
C1_RebuildIffSetDiffersWhenPdfs ==
    [][\A t \in Tasks, d \in DirStates : C1_WhenPdfsFound(t, d)]_vars

\* Two calls query one handle: the later of them found the cache current.
C1_Witness ==
    /\ app = "api"
    /\ \A t \in Tasks : pc[t] = "querying" /\ loc[t].qdocs = docs_instance
    /\ Cardinality(CachedSet) = 1

\* C2 as stated: every 200 response carries a non-empty answer that is none
\* of the no-answer tokens its application knows.
C2_AnswerNeverEmpty ==
    \A t \in Tasks :
        resp[t].status = 200 =>
            /\ resp[t].body.answer # Empty
            /\ \A token \in (IF app = "api" THEN {T_none, T_cannot}
                                              ELSE {T_none}) :
                   ~LowerEquals(resp[t].body.answer, token)

C3_Text(d) == IF d.exists THEN B_PDF ELSE B_DIR
C3_ToolText(d) == IF d.exists THEN E_PDF ELSE E_DIR

\* A request of task t ends in this step.
Ends(t) == pc[t] # "done" /\ pc'[t] = "done"

\* The lookup of task t's request found no directory or no PDF.
FoundNothing(t) ==
    \E i \in 1..Len(msgs[t]) :
        msgs[t][i].type = "tool" /\ msgs[t][i].content \in {E_DIR, E_PDF}

\* C3 as stated: when the directory is missing or holds no PDF, a valid
\* request ends in a 200 whose answer is the fixed explanatory text.
C3_FixedTextAnswer ==
    [][\A t \in Tasks :
          /\ \A d \in DirStates :
                backend_chat_with_papers(t, d) /\ NoDirOrNoPdf(d)
                    /\ Rejection(req[t].question) = NoResp
                => resp'[t] = JSONResponse([answer |-> C3_Text(d)])
          /\ Ends(t) /\ FoundNothing(t) =>
                /\ resp'[t].status = 200
                /\ resp'[t].body.answer \in {E_DIR, E_PDF}]_vars

C3_Step(t, d) ==
    /\ backend_chat_with_papers(t, d) /\ Rejection(req[t].question) = NoResp
       => /\ pc'[t] = "done"
          /\ resp'[t] = JSONResponse([answer |-> C3_Text(d)])
          /\ UNCHANGED <<heap, loc>>
    /\ paperqa_query_start(t, d)
       => /\ pc'[t] = "agent"
          /\ msgs'[t] = Append(msgs[t], ToolMessage(C3_ToolText(d)))
          /\ UNCHANGED <<heap, docs_instance, loc>>

\* C3 amended: when the papers path does not exist, or is a directory that
\* holds no PDF, as a handler looks, the direct handler answers a valid question with a 200 whose answer
\* is the fixed explanatory text, and the agent's tool returns its fixed
\* text to the agent as the tool result; neither issues an aadd or an aquery.
C3_FixedTextNoRagCall ==
    [][\A t \in Tasks, d \in DirStates : NoDirOrNoPdf(d) => C3_Step(t, d)]_vars

C3_Witness ==
    \E t \in Tasks : resp[t].status = 200 /\ resp[t].body.answer = B_DIR

\* A call made for task t's request fails in this step, with exception e.
Fails(t, e) ==
    \/ call_model_raise(t, e)
    \/ paperqa_query_add_raise(t, e)
    \/ paperqa_query_query_raise(t, e)
    \/ backend_add_raise(t, e)
    \/ backend_query_raise(t, e)

\* C4 as stated: any failure of indexing, querying or model invocation ends
\* the request in a 500 whose body does not carry the cause.
C4_FailureIsGeneric500 ==
    [][\A t \in Tasks, e \in Excs :
          Fails(t, e) => /\ pc'[t] = "done"
                         /\ resp'[t].status = 500
                         /\ resp'[t].cause = NoCause]_vars

\* C5: a request without a configured credential gets a 500 whatever the
\* question, an empty question with a credential gets a 400, and neither
\* calls the model, indexes, queries, touches the cached handle or logs.
C5_ValidationFirst ==
    [][\A t \in Tasks :
          pc[t] = "received" /\ pc'[t] # "received" =>
              /\ ~api_key => pc'[t] = "done" /\ resp'[t].status = 500
              /\ api_key /\ req[t].question = Empty
                     => pc'[t] = "done" /\ resp'[t].status = 400
              /\ ~api_key \/ req[t].question = Empty
                     => /\ msgs'[t] = <<>>
                        /\ UNCHANGED <<docs_instance, heap, loc, logs, hops>>]_vars

C5_Witness ==
    \E t \in Tasks : api_key /\ pc[t] = "done" /\ resp[t].status = 400

\* C6 as stated: every log line lies in the partition of the day it was
\* written on.
C6_PartitionOfWriteDay ==
    \A d \in DOMAIN logs :
        \A i \in 1..Len(logs[d]) : logs[d][i].timestamp = d

C7_Step(t) ==
    LET from == Node(pc[t])
        to == Node(pc'[t])
    IN  /\ from = "none" /\ to # "none"
           => /\ to = "agent"
              /\ msgs'[t] = <<SystemMessage(SystemPrompt),
                              HumanMessage(req[t].question)>>
        /\ from = "agent" /\ to \notin {"agent", "none"}
           => /\ to \in {"call_tool", "__end__"}
              /\ to = "call_tool" <=> Last(msgs'[t]).tool_calls > 0
        /\ from = "call_tool" => to \in {"call_tool", "agent"}
        /\ from # "__end__" /\ to = "__end__" => from = "agent"
        /\ from = "__end__" => to \in {"__end__", "none"}
        /\ from # "none" /\ to # "none" => IsPrefix(msgs[t], msgs'[t])

\* C7: the graph starts at agent; agent goes to call_tool exactly when the
\* last message asks for a tool call, and otherwise ends; call_tool goes back
\* to agent; the end is reached from agent only; messages are only appended.
C7_RoutingGraph == [][app = "api" => \A t \in Tasks : C7_Step(t)]_vars

C7_Witness ==
    \E t \in Tasks :
        /\ pc[t] = "__end__"
        /\ Len(msgs[t]) = 5
        /\ msgs[t][4].type = "tool"

\* An AI message asking for a tool call is among the messages.
VisitedCallTool(messages) ==
    \E i \in 1..Len(messages) :
        messages[i].type = "ai" /\ messages[i].tool_calls > 0

\* C8: a completed run is tagged "rag_api" if and only if call_tool was
\* visited during the run, and "conversational_api" otherwise.
C8_SourceTag ==
    [][\A t \in Tasks :
          pc[t] = "__end__" /\ pc'[t] = "done" =>
              /\ resp'[t].status = 200
              /\ resp'[t].body.source =
                    IF VisitedCallTool(msgs[t])
                    THEN "rag_api" ELSE "conversational_api"]_vars

C8_Witness ==
    \E t \in Tasks :
        app = "api" /\ resp[t].status = 200 /\ resp[t].body.source = "rag_api"

\* The handle task t queries is complete, stamped with the files added to it
\* and with the set the task saw, and nobody is adding to it.
C10_QueriedHandle(t) ==
    LET q == loc[t].qdocs
    IN  /\ q \in HandleIds
        /\ heap[q].live
        /\ heap[q].has_indexed
        /\ heap[q].indexed = heap[q].docs
        /\ heap[q].indexed = loc[t].current_files
        /\ \A u \in Tasks : pc[u] = "adding" => loc[u].temp_docs # q

\* A rebuild of task t fails in this step.
C10_RebuildFails(t) == pc[t] = "adding" /\ pc'[t] = "agent"

\* C10: under any interleaving of paperqa_query calls, every query runs
\* against a complete handle stamped with the files added to it and with the
\* set its caller saw; no handle is queried while files are added to it; a
\* failed rebuild leaves the cached handle as it was.
C10_QueriesSeeBuiltHandle ==
    /\ [](app = "api" => \A t \in Tasks : pc[t] = "querying" => C10_QueriedHandle(t))
    /\ [][\A t \in Tasks :
             C10_RebuildFails(t) =>
                 /\ UNCHANGED docs_instance
                 /\ HasCache => heap'[docs_instance] = heap[docs_instance]]_vars

\* One task queries the handle it built while the other builds the next.
C10_Witness ==
    /\ app = "api"
    /\ pc[1] = "querying"
    /\ pc[2] = "adding"
    /\ loc[2].current_files # loc[1].current_files
    /\ Cardinality(loc[1].current_files) = 2


\* C9 as stated: the sanitizer is idempotent: cleaning a cleaned text changes
\* nothing.
C9_Idempotent == cstage = 2 => cout2 = cout1

====
